---- MODULE Spec2Model ----
(***************************************************************************)
(* Model of the ETHERLED receiver (src/ETHERLED/receiver_decode.py): one   *)
(* decode run of main() as a state machine, and the pure functions it      *)
(* calls as operators; and of the Morse beacon                             *)
(* (src/ETHERLED/morse_beacon.py): one call of run_morse().                *)
(*                                                                         *)
(* Conventions.  Python sequences are 0-based, TLA+ sequences 1-based: an  *)
(* offset or a frame index keeps its Python value and is shifted by one    *)
(* where a sequence is indexed.  Python's None is the empty tuple, and an   *)
(* optional number n is the tuple <<n>>.                                   *)
(* Floating point values are kept exact: an intensity is the integer sum   *)
(* of the V channel over the crop (the mean times the crop's area, the     *)
(* same area for every frame of a run), a bit-error-rate is the pair       *)
(* <<errors, L>>, and every comparison the code makes between floats is    *)
(* made between the exact values.                                          *)
(***************************************************************************)
EXTENDS Integers, Sequences, FiniteSets, TLC

VARIABLES
    pc,            \* position of the run in main()
    args,          \* the parsed command line (argparse namespace)
    video,         \* the recording behind cv2.VideoCapture
    roi,           \* (x, y, w, h) or None
    blob,          \* auto_roi's cv2.boundingRect(cnts[0]), or None
    intens,        \* intensities measured so far
    d,             \* detrended series
    frame_bits,    \* per-frame ON/OFF decisions
    thr,           \* binarization threshold
    bit_period,    \* frames per bit in use
    cycle_frames,  \* autocorrelation cycle length or "None"
    off,           \* loop counter of best_alignment_and_ber
    iter,          \* locals of the last loop iteration of best_alignment_and_ber
    best,          \* best alignment so far
    report,        \* the emitted report or "None"
    err,           \* the exception that ended the run, or NoError
    fps,           \* frames per second in use
    pos,           \* number of frames cap.read() has returned
    \* run_morse() of morse_beacon.py
    bpc,              \* position of the call in run_morse()
    message,          \* --message, a sequence of characters
    unit_ms,          \* --unit-ms
    repeats,          \* --repeats
    preamble_cycles,  \* --preamble-cycles
    msg,              \* message.upper()
    pre_i,            \* loop counter i of the preamble
    rep,              \* loop counter r of the repeats
    ch_idx,           \* index of the current character in msg
    sym_idx,          \* index i of the current symbol in its code
    sched             \* intervals commanded so far in the preamble or the
                      \* current repetition: bursts (ON) and sleeps (OFF)

receiver_vars == <<pc, args, video, roi, blob, intens, d, frame_bits, thr, bit_period,
                   cycle_frames, off, iter, best, report, err, fps, pos>>

beacon_vars == <<bpc, message, unit_ms, repeats, preamble_cycles, msg, pre_i,
                 rep, ch_idx, sym_idx, sched>>

vars == <<receiver_vars, beacon_vars>>

\* No beacon runs beside a decode run.
beacon_idle ==
    /\ bpc = "idle"
    /\ message = <<>>
    /\ unit_ms = 0
    /\ repeats = 0
    /\ preamble_cycles = 0
    /\ msg = <<>>
    /\ pre_i = 0
    /\ rep = 0
    /\ ch_idx = 0
    /\ sym_idx = 0
    /\ sched = <<>>

None == <<>>
Some(v) == <<v>>
NoError == "none"

\* ------------------------------------------------------------------ bounds
MaxFrameBits == 6
MaxBitPeriod == 3
MaxPattern == 3
MaxVideoFrames == 4
WaveFrames == 12
FrameW == 10
FrameH == 9

\* ----------------------------------------------------------------- helpers
Max(a, b) == IF a >= b THEN a ELSE b
Min(a, b) == IF a <= b THEN a ELSE b

RECURSIVE SumSeq(_)
SumSeq(s) == IF s = <<>> THEN 0 ELSE Head(s) + SumSeq(Tail(s))

BitSeqs(lo, hi) == UNION {[1..n -> {0, 1}] : n \in lo..hi}

\* ------------------------------------------------- sample_bits_with_offset
\* nbits = max(0, total // bit_period): Python's // floors, as \div does.
nbits_of(total, period) == Max(0, total \div period)

\* 1 if window.mean() >= 0.5 else 0
window_vote_strict(window) == IF 2 * SumSeq(window) > Len(window) THEN 1 ELSE 0
window_vote_inverted(window) == IF 2 * SumSeq(window) >= Len(window) THEN 0 ELSE 1
window_vote(window) == IF 2 * SumSeq(window) >= Len(window) THEN 1 ELSE 0

sample_bits_with_offset(fb, period, offset) ==
    LET start == offset
        total == Len(fb) - start
        nbits == nbits_of(total, period)
    IN  [i \in 1..nbits |->
            window_vote(SubSeq(fb, start + (i - 1) * period + 1, start + i * period))]

\* -------------------------------------------------- best_alignment_and_ber
\* int(np.sum(np.array(bits[:L]) ^ exp_bits[:L]))
count_errors_or(bs, exp_bits, L) == Cardinality({i \in 1..L : bs[i] = 1 \/ exp_bits[i] = 1})
count_errors(bs, exp_bits, L) == Cardinality({i \in 1..L : bs[i] # exp_bits[i]})

\* best["ber"] is None or ber < best["ber"], with ber = errors / L
ber_improves_on_tie(errors, L, bestber) ==
    \/ bestber = None
    \/ errors * bestber[2] <= bestber[1] * L
ber_improves(errors, L, bestber) ==
    \/ bestber = None
    \/ errors * bestber[2] < bestber[1] * L

\* "if not bits: continue" and "if L == 0: continue"
skip_offset_unless_no_bits(bs, L) == bs = <<>>
skip_offset(bs, L) == bs = <<>> \/ L = 0

best_initial == [offset |-> 0, ber |-> None, nbits |-> 0, measured |-> <<>>]
iter_initial == [off |-> None, bits |-> <<>>, L |-> 0, errors |-> 0, compared |-> FALSE]

\* One pass of the loop "for off in range(bit_period)".
AlignStep ==
    /\ UNCHANGED beacon_vars
    /\ pc = "align"
    /\ off < bit_period
    /\ LET exp_bits == args.expected_pattern
           bs == sample_bits_with_offset(frame_bits, bit_period, off)
           L == Min(Len(bs), Len(exp_bits))
           errors == count_errors(bs, exp_bits, L)
       IN  IF skip_offset(bs, L)
           THEN /\ iter' = [off |-> Some(off), bits |-> bs, L |-> L, errors |-> 0,
                            compared |-> FALSE]
                /\ best' = best
           ELSE /\ iter' = [off |-> Some(off), bits |-> bs, L |-> L, errors |-> errors,
                            compared |-> TRUE]
                /\ best' = IF ber_improves(errors, L, best.ber)
                           THEN [offset |-> off, ber |-> <<errors, L>>,
                                 nbits |-> L, measured |-> SubSeq(bs, 1, L)]
                           ELSE best
    /\ off' = off + 1
    /\ UNCHANGED <<pc, blob, args, video, roi, intens, d, frame_bits, thr, bit_period,
                   cycle_frames, report, err, fps, pos>>

\* The loop is exhausted: "return best".
AlignReturn ==
    /\ UNCHANGED beacon_vars
    /\ pc = "align"
    /\ off >= bit_period
    /\ pc' = "report"
    /\ UNCHANGED <<blob, args, video, roi, intens, d, frame_bits, thr, bit_period,
                   cycle_frames, off, iter, best, report, err, fps, pos>>

\* The defaults of the command line (lines 133-144); --roi "" is None.
args_default ==
    [roi |-> None, interactive_roi |-> FALSE, fps_override |-> None,
     bit_period |-> 3, auto_bit_period |-> FALSE,
     expected_pattern |-> [i \in 1..(2 * 512) |-> i % 2], detrend_win |-> 31]

\* ------------------------------------------------------------- the recording
\* A recording is a scene of gray pixels (B = G = R, so the gray value and the
\* HSV value channel are both that value): a background, and a rectangular
\* light (x, y, w, h) that has one value while ON and one while OFF.
\*   video.opened  cap.isOpened()
\*   video.fps     cap.get(CAP_PROP_FPS), 0 when the metadata has none
\*   video.leds    the light's state in each frame
pixel(v, i, r, c) ==
    LET l == v.led
    IN  IF /\ c >= l[1] /\ c < l[1] + l[3]
           /\ r >= l[2] /\ r < l[2] + l[4]
        THEN IF v.leds[i + 1] = 1 THEN v.hi ELSE v.lo
        ELSE v.bg

\* f[a] + ... + f[b]
RECURSIVE SumRange(_, _, _)
SumRange(f, a, b) ==
    IF a > b THEN 0
    ELSE IF a = b THEN f[a]
    ELSE LET m == (a + b) \div 2
         IN  SumRange(f, a, m) + SumRange(f, m + 1, b)

\* ------------------------------------------------------------------ auto_roi
Pad == 4
PercentilePerMille == 997
KernelSize == 11

\* cv2.GaussianBlur(gray, (11, 11), 0): sigma = 0.3 * ((11 - 1) * 0.5 - 1) + 0.8
\* = 2, the separable kernel in 1/256 units, BORDER_REFLECT_101 at the edges,
\* the result rounded to the nearest integer.
GaussKernel == <<2, 7, 17, 31, 45, 52, 45, 31, 17, 7, 2>>

reflect101(i, n) ==
    IF n = 1 THEN 0
    ELSE LET m == i % (2 * (n - 1))
         IN  IF m >= n THEN 2 * (n - 1) - m ELSE m

\* f with every value computed (TLC keeps [x \in S |-> e] as a rule otherwise).
Explicit(f) == f @@ <<>>

\* An image is a function of <<row, column>>.
gaussian_blur(gray, H, W) ==
    LET half == KernelSize \div 2
        P == (0..(H - 1)) \X (0..(W - 1))
        g == Explicit(gray)
        rowpass == Explicit([p \in P |->
            SumRange([j \in 1..KernelSize |->
                         GaussKernel[j] * g[<<p[1], reflect101(p[2] + j - 1 - half, W)>>]],
                     1, KernelSize)])
    IN  Explicit([p \in P |->
            (SumRange([i \in 1..KernelSize |->
                          GaussKernel[i] * rowpass[<<reflect101(p[1] + i - 1 - half, H), p[2]>>]],
                      1, KernelSize)
             + 32768) \div 65536])

\* The k-th smallest (k from 0) of the values f[p], p in the domain of f.
kth_smallest(f, k) ==
    CHOOSE v \in {f[p] : p \in DOMAIN f} :
        /\ Cardinality({p \in DOMAIN f : f[p] < v}) <= k
        /\ Cardinality({p \in DOMAIN f : f[p] <= v}) > k

\* mask = blurred >= np.percentile(blurred, 99.7): linear interpolation between
\* the two order statistics around position 0.997 * (n - 1), times 1000.
percentile_x1000(flat, n) ==
    LET at == PercentilePerMille * (n - 1)
        k == at \div 1000
        rem == at % 1000
        sk == kth_smallest(flat, k)
        sk1 == IF rem = 0 THEN sk ELSE kth_smallest(flat, k + 1)
    IN  1000 * sk + rem * (sk1 - sk)

bright_mask(blurred, H, W) ==
    LET t == percentile_x1000(blurred, H * W)
    IN  {p \in DOMAIN blurred : 1000 * blurred[p] >= t}

\* cv2.findContours(mask, RETR_EXTERNAL, ...): one contour per 8-connected
\* region of the mask; a contour is kept as the set of its region's pixels.
adjacent8(p, q) ==
    /\ p # q
    /\ p[1] - q[1] \in {-1, 0, 1}
    /\ p[2] - q[2] \in {-1, 0, 1}

RECURSIVE region_of(_, _)
region_of(S, mask) ==
    LET T == S \cup {q \in mask : \E p \in S : adjacent8(p, q)}
    IN  IF T = S THEN S ELSE region_of(T, mask)

RECURSIVE find_contours(_)
find_contours(mask) ==
    IF mask = {} THEN {}
    ELSE LET p == CHOOSE q \in mask : TRUE
             reg == region_of({p}, mask)
         IN  {reg} \cup find_contours(mask \ reg)

\* cv2.boundingRect: (x, y, w, h) of the pixels <<row, column>> of a contour.
bounding_rect(cnt) ==
    LET x0 == CHOOSE c \in {q[2] : q \in cnt} : \A q \in cnt : c <= q[2]
        x1 == CHOOSE c \in {q[2] : q \in cnt} : \A q \in cnt : c >= q[2]
        y0 == CHOOSE r \in {q[1] : q \in cnt} : \A q \in cnt : r <= q[1]
        y1 == CHOOSE r \in {q[1] : q \in cnt} : \A q \in cnt : r >= q[1]
    IN  <<x0, y0, x1 - x0 + 1, y1 - y0 + 1>>

\* Lines 28-31: pad the rectangle and clip it to the frame.
pad_clip(rect, H, W, pad) ==
    LET x == Max(0, rect[1] - pad)
        y == Max(0, rect[2] - pad)
        w == Min(W - x, rect[3] + 2 * pad)
        h == Min(H - y, rect[4] + 2 * pad)
    IN  <<x, y, w, h>>

\* auto_roi(first): the outcomes it can have, each the bounding rectangle of a
\* contour and the region returned for it; none when it raises.  The contours
\* are sorted by cv2.contourArea and the first is taken; which contour has the
\* least area is left open when there are several.
auto_roi(v) ==
    LET H == v.height
        W == v.width
        gray == [p \in (0..(H - 1)) \X (0..(W - 1)) |-> pixel(v, 0, p[1], p[2])]
        blurred == gaussian_blur(gray, H, W)
        mask == bright_mask(blurred, H, W)
        cnts == find_contours(mask)
    IN  {[rect |-> bounding_rect(cnt),
          roi |-> pad_clip(bounding_rect(cnt), H, W, Pad)] : cnt \in cnts}

\* ------------------------------------------------------ roi_intensity_series
FpsFallback == 30

\* a Python slice a:b of a dimension of n: <<start, stop>>, empty when
\* stop <= start; a negative index counts from the end.
slice_index(i, n) == IF i < 0 THEN Max(i + n, 0) ELSE Min(i, n)
py_slice(a, b, n) == <<slice_index(a, n), slice_index(b, n)>>

\* measure(frame): the sum of the value channel over frame[y:y+h, x:x+w] (the
\* mean times the crop's area); None when the crop is empty and cv2.cvtColor
\* raises.
measure(v, i, r) ==
    LET rows == py_slice(r[2], r[2] + r[4], v.height)
        cols == py_slice(r[1], r[1] + r[3], v.width)
    IN  IF rows[2] <= rows[1] \/ cols[2] <= cols[1]
        THEN None
        ELSE LET rowsum == [rr \in rows[1]..(rows[2] - 1) |->
                            SumRange([cc \in cols[1]..(cols[2] - 1) |-> pixel(v, i, rr, cc)],
                                     cols[1], cols[2] - 1)]
             IN  Some(SumRange(rowsum, rows[1], rows[2] - 1))

\* The rectangles a human may draw in cv2.selectROI; (0, 0, 0, 0) is what it
\* returns when nothing is drawn.
Selections(v) == {<<0, 0, 0, 0>>, <<0, 0, v.width, v.height>>, v.led}

\* Lines 146 and 103-108: parse --roi, open the video, settle the fps.
OpenVideo ==
    /\ UNCHANGED beacon_vars
    /\ pc = "start"
    /\ IF ~video.opened
       THEN /\ pc' = "error"
            /\ err' = "RuntimeError: Cannot open video"
            /\ fps' = fps
       ELSE /\ pc' = "first"
            /\ err' = err
            /\ fps' = IF args.fps_override # None THEN args.fps_override[1]
                      ELSE IF video.fps # 0 THEN video.fps ELSE FpsFallback
    /\ UNCHANGED <<blob, args, video, roi, intens, d, frame_bits, thr, bit_period,
                   cycle_frames, off, iter, best, report, pos>>

\* Lines 110-123: read the first frame, settle the ROI, measure the frame.
ReadFirst ==
    /\ UNCHANGED beacon_vars
    /\ pc = "first"
    /\ IF Len(video.leds) = 0
       THEN /\ pc' = "error"
            /\ err' = "RuntimeError: Empty or unreadable video."
            /\ UNCHANGED <<roi, blob, intens, pos>>
       ELSE LET cands == IF args.roi # None THEN {[rect |-> None, roi |-> args.roi]}
                         ELSE IF args.interactive_roi
                         THEN {[rect |-> None, roi |-> r] : r \in Selections(video)}
                         ELSE auto_roi(video)
            IN  IF cands = {}
                THEN /\ pc' = "error"
                     /\ err' = "RuntimeError: Auto-ROI failed"
                     /\ pos' = 1
                     /\ UNCHANGED <<roi, blob, intens>>
                ELSE \E c \in cands :
                        IF args.roi = None /\ args.interactive_roi /\ c.roi = <<0, 0, 0, 0>>
                        THEN /\ pc' = "error"
                             /\ err' = "RuntimeError: No ROI selected."
                             /\ pos' = 1
                             /\ UNCHANGED <<roi, blob, intens>>
                        ELSE LET m == measure(video, 0, c.roi)
                             IN  /\ roi' = c.roi
                                 /\ blob' = c.rect
                                 /\ pos' = 1
                                 /\ IF m = None
                                    THEN /\ pc' = "error"
                                         /\ err' = "cv2.error: empty crop"
                                         /\ intens' = intens
                                    ELSE /\ pc' = "read"
                                         /\ err' = err
                                         /\ intens' = Append(intens, m[1])
    /\ UNCHANGED <<args, video, d, frame_bits, thr, bit_period,
                   cycle_frames, off, iter, best, report, fps>>

\* Lines 124-129: one pass of "while True": the next frame is measured, or
\* there is none and the series is returned.
ReadFrame ==
    /\ UNCHANGED beacon_vars
    /\ pc = "read"
    /\ IF pos < Len(video.leds)
       THEN /\ intens' = Append(intens, measure(video, pos, roi)[1])
            /\ pos' = pos + 1
            /\ pc' = pc
       ELSE /\ pc' = "detrend"
            /\ UNCHANGED <<intens, pos>>
    /\ UNCHANGED <<blob, args, video, roi, d, frame_bits, thr, bit_period,
                   cycle_frames, off, iter, best, report, err, fps>>

\* ------------------------------------------ the alignment search on its own
\* best_alignment_and_ber applied to every frame-bit sequence, bit period and
\* expected pattern within the bounds.
\* A pattern with every bit repeated k times: the frame bits of a noiseless
\* recording of the pattern at bit period k.
Repeat(p, k) == [i \in 1..(Len(p) * k) |-> p[((i - 1) \div k) + 1]]

\* F and every sequence that differs from F in exactly one frame.
WithFlips(F) == {F} \cup {[F EXCEPT ![i] = 1 - F[i]] : i \in 1..Len(F)}

\* <<expected pattern, bit period, frame bits>>: every combination within the
\* bounds, and every pattern sent at every bit period with at most one frame
\* flipped, decoded against itself.
AlignInputs ==
    (BitSeqs(0, MaxPattern) \X (1..MaxBitPeriod) \X BitSeqs(1, MaxFrameBits))
    \cup UNION {{<<p, k, F>> : F \in WithFlips(Repeat(p, k))} :
                  <<p, k>> \in BitSeqs(1, MaxPattern) \X (1..MaxBitPeriod)}

InitAlign ==
    /\ beacon_idle
    /\ pc = "align"
    /\ \E inp \in AlignInputs :
          /\ args = [args_default EXCEPT !.expected_pattern = inp[1],
                                         !.bit_period = inp[2]]
          /\ bit_period = inp[2]
          /\ frame_bits = inp[3]
    /\ video = None
    /\ roi = None
    /\ blob = None
    /\ intens = <<>>
    /\ d = <<>>
    /\ thr = None
    /\ cycle_frames = None
    /\ off = 0
    /\ iter = iter_initial
    /\ best = best_initial
    /\ report = None
    /\ err = NoError
    /\ fps = 30
    /\ pos = 0

NextAlign == AlignStep \/ AlignReturn

SpecAlign == InitAlign /\ [][NextAlign]_vars

\* ------------------------------------------------------------------- detrend
\* Twice np.median(s): the middle value, or the mean of the two middle values.
median2(s) ==
    LET n == Len(s)
    IN  IF n % 2 = 1
        THEN 2 * kth_smallest(s, n \div 2)
        ELSE kth_smallest(s, n \div 2 - 1) + kth_smallest(s, n \div 2)

\* w = max(3, win if win % 2 == 1 else win + 1)
odd_window(win) == Max(3, IF win % 2 = 1 THEN win ELSE win + 1)

\* x - med, med[i] the median of the w values of the edge-padded x around i.
detrend(x, win) ==
    LET w == odd_window(win)
        pad == w \div 2
        n == Len(x)
        padded(j) == x[Min(Max(j - pad, 0), n - 1) + 1]
        med == [i \in 1..n |->
                   median2([j \in 1..w |-> padded(i - 1 + j - 1)]) \div 2]
    IN  [i \in 1..n |-> x[i] - med[i]]

\* args.detrend_win | 1
bit_or_1(n) == IF n % 2 = 0 THEN n + 1 ELSE n

\* ----------------------------------------------------------------- to_binary
\* k_sigma = 2.5 = KSigmaNum / KSigmaDen
KSigmaNum == 5
KSigmaDen == 2

\* intensity > median + k * sigma, with n == len, S == sum, Q == sum of squares
\* and sigma = sqrt(n * Q - S * S) / n; a sigma of 0 becomes 1e-9, less than
\* any difference between two values of the series.
above_threshold(x2, m2, n, V) ==
    LET e == x2 - m2
    IN  /\ e > 0
        /\ (KSigmaDen * n * e) * (KSigmaDen * n * e) > 4 * KSigmaNum * KSigmaNum * V

to_binary(x) ==
    LET n == Len(x)
        m2 == median2(x)
        S == SumRange(x, 1, n)
        Q == SumRange([i \in 1..n |-> x[i] * x[i]], 1, n)
        V == n * Q - S * S
    IN  [bits |-> [i \in 1..n |-> IF above_threshold(2 * x[i], m2, n, V) THEN 1 ELSE 0],
         thr |-> [median2 |-> m2, n2var |-> V, n |-> n]]

\* ----------------------------------------------- estimate_bitperiod_autocorr
MinMs == 60
MaxMs == 220

\* None, or <<bit_period, cycle_frames>>.  x is n * (signal - mean) and ac its
\* autocorrelation at lags >= 0; np.argmax returns the first maximum.
bit_period_floor(cycle) == Max(1, cycle \div 2)

estimate_bitperiod_autocorr(signal, f) ==
    LET n == Len(signal)
        S == SumRange(signal, 1, n)
        x == [i \in 1..n |-> n * signal[i] - S]
        ac == [lag \in 0..(n - 1) |->
                  SumRange([i \in 1..(n - lag) |-> x[i] * x[i + lag]], 1, n - lag)]
        min_lag == Max(2, (2 * MinMs * f) \div 1000)
        max_lag == Min(n \div 2, (2 * MaxMs * f) \div 1000)
    IN  IF max_lag <= min_lag + 1
        THEN None
        ELSE LET lag == CHOOSE l \in min_lag..(max_lag - 1) :
                            /\ \A m \in min_lag..(max_lag - 1) : ac[m] <= ac[l]
                            /\ \A m \in min_lag..(l - 1) : ac[m] < ac[l]
             IN  <<bit_period_floor(lag), lag>>

\* ---------------------------------------------------------------------- main
\* Line 148: d = detrend(intens, win=max(5, args.detrend_win | 1))
Detrend ==
    /\ UNCHANGED beacon_vars
    /\ pc = "detrend"
    /\ d' = detrend(intens, Max(5, bit_or_1(args.detrend_win)))
    /\ pc' = "binarize"
    /\ UNCHANGED <<blob, args, video, roi, intens, frame_bits, thr, bit_period,
                   cycle_frames, off, iter, best, report, err, fps, pos>>

\* Line 149: frame_bits, thr = to_binary(d, k_sigma=args.k_sigma)
Binarize ==
    /\ UNCHANGED beacon_vars
    /\ pc = "binarize"
    /\ frame_bits' = to_binary(d).bits
    /\ thr' = to_binary(d).thr
    /\ pc' = "bitperiod"
    /\ UNCHANGED <<blob, args, video, roi, intens, d, bit_period,
                   cycle_frames, off, iter, best, report, err, fps, pos>>

\* Lines 151-156, and the entry of best_alignment_and_ber (lines 87-88).
SettleBitPeriod ==
    /\ UNCHANGED beacon_vars
    /\ pc = "bitperiod"
    /\ LET est == IF args.auto_bit_period
                  THEN estimate_bitperiod_autocorr(d, fps)
                  ELSE None
       IN  IF est # None
           THEN /\ bit_period' = est[1]
                /\ cycle_frames' = Some(est[2])
           ELSE /\ bit_period' = args.bit_period
                /\ cycle_frames' = None
    /\ off' = 0
    /\ iter' = iter_initial
    /\ best' = best_initial
    /\ pc' = "align"
    /\ UNCHANGED <<blob, args, video, roi, intens, d, frame_bits, thr,
                   report, err, fps, pos>>

\* A mean of intensities: not a number, or num / den.
NaN == [nan |-> TRUE, num |-> 0, den |-> 1]
mean_of(series, frames) ==
    IF frames = {}
    THEN NaN
    ELSE [nan |-> FALSE,
          num |-> SumRange([f \in 1..Len(series) |->
                               IF (f - 1) \in frames THEN series[f] ELSE 0],
                           1, Len(series)),
          den |-> Cardinality(frames)]

\* Lines 160-192: the ON and OFF frames by the expected pattern at the best
\* offset, their mean intensities, and the report.
Report ==
    /\ UNCHANGED beacon_vars
    /\ pc = "report"
    /\ LET exp_bits == SubSeq(args.expected_pattern, 1, best.nbits)
           start == best.offset
           n == Len(frame_bits)
           \* "if z > len(frame_bits): break": z grows with i (the loop runs only
           \* when best["nbits"] > 0, and then bit_period >= 1), so symbol i is
           \* reached exactly when its own window ends within the frames.
           frames_of(b) ==
               {f \in 0..(n - 1) :
                   \E i \in 0..(best.nbits - 1) :
                       /\ exp_bits[i + 1] = b
                       /\ start + (i + 1) * bit_period <= n
                       /\ start + i * bit_period <= f
                       /\ f < start + (i + 1) * bit_period}
           mean_on == mean_of(intens, frames_of(1))
           mean_off == mean_of(intens, frames_of(0))
           delta == IF mean_on.nan \/ mean_off.nan
                    THEN NaN
                    ELSE [nan |-> FALSE,
                          num |-> mean_on.num * mean_off.den - mean_off.num * mean_on.den,
                          den |-> mean_on.den * mean_off.den]
       IN  report' = [fps |-> fps,
                      frames |-> Len(intens),
                      roi |-> roi,
                      bit_period_frames |-> bit_period,
                      cycle_frames_est |-> cycle_frames,
                      offset_frames |-> best.offset,
                      ber_vs_expected |-> best.ber,
                      nbits_compared |-> best.nbits,
                      threshold_detrended |-> thr,
                      mean_intensity_on |-> mean_on,
                      mean_intensity_off |-> mean_off,
                      on_minus_off |-> delta]
    /\ pc' = "done"
    /\ UNCHANGED <<blob, args, video, roi, intens, d, frame_bits, thr, bit_period,
                   cycle_frames, off, iter, best, err, fps, pos>>

Next ==
    \/ OpenVideo
    \/ ReadFirst
    \/ ReadFrame
    \/ Detrend
    \/ Binarize
    \/ SettleBitPeriod
    \/ AlignStep
    \/ AlignReturn
    \/ Report

\* The state main() starts from, for a command line and a recording.
InitRun(a, v) ==
    /\ beacon_idle
    /\ pc = "start"
    /\ args = a
    /\ video = v
    /\ roi = None
    /\ blob = None
    /\ intens = <<>>
    /\ d = <<>>
    /\ frame_bits = <<>>
    /\ thr = None
    /\ bit_period = a.bit_period
    /\ cycle_frames = None
    /\ off = 0
    /\ iter = iter_initial
    /\ best = best_initial
    /\ report = None
    /\ err = NoError
    /\ fps = 0
    /\ pos = 0

\* ------------------------------------------------------------ decode runs
\* The light ON in the frames where (frame_index // p) % 2 == 1.
SquareWave(n, p) == [i \in 1..n |-> IF ((i - 1) \div p) % 2 = 1 THEN 1 ELSE 0]

\* Recordings of a one-pixel light in a 4 x 3 frame: every light sequence of at
\* most MaxVideoFrames frames, and the square waves of WaveFrames frames.
SignalVideos ==
    {[opened |-> TRUE, fps |-> f, width |-> 4, height |-> 3,
      bg |-> 10, lo |-> 10, hi |-> 11, led |-> <<1, 1, 1, 1>>, leds |-> l] :
        f \in {0, 10},
        l \in BitSeqs(0, MaxVideoFrames)
              \cup {SquareWave(WaveFrames, p) : p \in 1..MaxBitPeriod}}

\* Command lines with the ROI on the light: any --bit-period (an int, not
\* validated), --auto-bit-period or not, three patterns, two detrend windows.
SignalArgs ==
    {[args_default EXCEPT !.roi = <<1, 1, 1, 1>>, !.bit_period = b,
                          !.auto_bit_period = a, !.expected_pattern = e,
                          !.detrend_win = w] :
        b \in (-1)..MaxBitPeriod, a \in BOOLEAN,
        e \in {<<>>, <<1, 0>>, args_default.expected_pattern},
        w \in {args_default.detrend_win, 4}}

\* Recordings of a FrameW x FrameH frame: a bright light of 1 x 1 or 2 x 2
\* pixels at every place on a gray background, ON in the first frame; and the
\* same frame with the light never ON, which is uniformly gray.
RoiVideo(led, l) ==
    [opened |-> TRUE, fps |-> 30, width |-> FrameW, height |-> FrameH,
     bg |-> 10, lo |-> 10, hi |-> 250, led |-> led, leds |-> l]

AutoVideos ==
    {RoiVideo(<<x, y, sz, sz>>, <<1, 0>>) :
        <<x, y, sz>> \in {t \in (0..(FrameW - 1)) \X (0..(FrameH - 1)) \X {1, 2} :
                            t[1] + t[3] <= FrameW /\ t[2] + t[3] <= FrameH}}
    \cup {RoiVideo(<<2, 2, 1, 1>>, <<0, 0>>)}

\* --roi values: inside the frame, and outside of it in each way.
ManualRois ==
    {<<1, 1, 2, 2>>, <<0, 0, FrameW, FrameH>>,
     <<-1, 0, 2, 2>>, <<-3, 1, 2, 2>>, <<FrameW - 1, 0, 3, 2>>,
     <<0, FrameH - 1, 2, 3>>, <<0, 0, 0, 2>>, <<FrameW, 0, 1, 1>>}

RunInputs ==
    (SignalArgs \X SignalVideos)
    \cup ({args_default} \X AutoVideos)
    \cup ({[args_default EXCEPT !.roi = r] : r \in ManualRois}
          \X {RoiVideo(<<2, 2, 1, 1>>, <<1, 0>>)})
    \cup ({[args_default EXCEPT !.interactive_roi = TRUE]}
          \X {RoiVideo(<<2, 2, 1, 1>>, <<1, 0>>)})
    \cup ({args_default}
          \X {[RoiVideo(<<2, 2, 1, 1>>, <<1, 0>>) EXCEPT !.opened = FALSE]})

Init == \E inp \in RunInputs : InitRun(inp[1], inp[2])

Spec == Init /\ [][Next]_vars

\* ------------------------------------------------------------- scenario A
\* 300 frames at 30 fps, the ROI fixed at (10, 10, 20, 20), the light ON in
\* the frames where (frame_index // 3) % 2 == 1, no noise, default options.
video_A ==
    [opened |-> TRUE, fps |-> 30, width |-> 64, height |-> 48,
     bg |-> 10, lo |-> 10, hi |-> 11, led |-> <<19, 19, 2, 2>>,
     leds |-> [i \in 1..300 |-> IF ((i - 1) \div 3) % 2 = 1 THEN 1 ELSE 0]]

args_A == [args_default EXCEPT !.roi = <<10, 10, 20, 20>>]

InitA == InitRun(args_A, video_A)

SpecA == InitA /\ [][Next]_vars

\* ============================================================ morse_beacon.py
\* A message is a sequence of one-character strings, a Morse code a sequence of
\* "." and "-".  Durations are in milliseconds: unit = unit_ms / 1000.0 seconds.
\* ------------------------------------------------------------------- bounds
MaxMessage == 4
MaxLate == 1

\* ------------------------------------------------------------- MORSE_TABLE
MORSE_TABLE ==
    ("A" :> <<".", "-">>) @@ ("B" :> <<"-", ".", ".", ".">>) @@
    ("C" :> <<"-", ".", "-", ".">>) @@ ("D" :> <<"-", ".", ".">>) @@
    ("E" :> <<".">>) @@ ("F" :> <<".", ".", "-", ".">>) @@
    ("G" :> <<"-", "-", ".">>) @@ ("H" :> <<".", ".", ".", ".">>) @@
    ("I" :> <<".", ".">>) @@ ("J" :> <<".", "-", "-", "-">>) @@
    ("K" :> <<"-", ".", "-">>) @@ ("L" :> <<".", "-", ".", ".">>) @@
    ("M" :> <<"-", "-">>) @@ ("N" :> <<"-", ".">>) @@
    ("O" :> <<"-", "-", "-">>) @@ ("P" :> <<".", "-", "-", ".">>) @@
    ("Q" :> <<"-", "-", ".", "-">>) @@ ("R" :> <<".", "-", ".">>) @@
    ("S" :> <<".", ".", ".">>) @@ ("T" :> <<"-">>) @@
    ("U" :> <<".", ".", "-">>) @@ ("V" :> <<".", ".", ".", "-">>) @@
    ("W" :> <<".", "-", "-">>) @@ ("X" :> <<"-", ".", ".", "-">>) @@
    ("Y" :> <<"-", ".", "-", "-">>) @@ ("Z" :> <<"-", "-", ".", ".">>) @@
    ("0" :> <<"-", "-", "-", "-", "-">>) @@ ("1" :> <<".", "-", "-", "-", "-">>) @@
    ("2" :> <<".", ".", "-", "-", "-">>) @@ ("3" :> <<".", ".", ".", "-", "-">>) @@
    ("4" :> <<".", ".", ".", ".", "-">>) @@ ("5" :> <<".", ".", ".", ".", ".">>) @@
    ("6" :> <<"-", ".", ".", ".", ".">>) @@ ("7" :> <<"-", "-", ".", ".", ".">>) @@
    ("8" :> <<"-", "-", "-", ".", ".">>) @@ ("9" :> <<"-", "-", "-", "-", ".">>) @@
    (" " :> <<" ">>)

\* MORSE_TABLE.get(ch, "")
morse_code(ch) == IF ch \in DOMAIN MORSE_TABLE THEN MORSE_TABLE[ch] ELSE <<>>

\* str.upper(), on the characters a message is made of here.
LowerCase ==
    <<"a", "b", "c", "d", "e", "f", "g", "h", "i", "j", "k", "l", "m",
      "n", "o", "p", "q", "r", "s", "t", "u", "v", "w", "x", "y", "z">>
UpperCase ==
    <<"A", "B", "C", "D", "E", "F", "G", "H", "I", "J", "K", "L", "M",
      "N", "O", "P", "Q", "R", "S", "T", "U", "V", "W", "X", "Y", "Z">>
upper_char(c) ==
    IF \E k \in 1..Len(LowerCase) : LowerCase[k] = c
    THEN UpperCase[CHOOSE k \in 1..Len(LowerCase) : LowerCase[k] = c]
    ELSE c
upper(m) == [k \in 1..Len(m) |-> upper_char(m[k])]

\* ---------------------------------------------------------------- run_morse
dot == unit_ms
dash == 3 * unit_ms
intra_gap == unit_ms
char_gap == 3 * unit_ms
word_gap == 7 * unit_ms
PreambleMs == 500

\* send_burst(s, duration, ...): the LED ON for the duration asked.
burst(kind, ms, late) ==
    [on |-> TRUE, kind |-> kind, ms |-> ms, ch |-> ch_idx, sym |-> sym_idx,
     late |-> late]
\* time.sleep(duration): the LED OFF for the duration asked.
sleep(kind, ms) ==
    [on |-> FALSE, kind |-> kind, ms |-> ms, ch |-> ch_idx, sym |-> -1, late |-> 0]

\* Lines 92-99: the socket is set up, or the call exits.
Setup ==
    /\ bpc = "setup"
    /\ \E ok \in BOOLEAN : bpc' = IF ok THEN "preamble" ELSE "exit"
    /\ UNCHANGED <<message, unit_ms, repeats, preamble_cycles, msg, pre_i,
                   rep, ch_idx, sym_idx, sched>>
    /\ UNCHANGED receiver_vars

\* Lines 111-123: one cycle of the preamble, or msg = message.upper() after it.
Preamble ==
    /\ bpc = "preamble"
    /\ IF pre_i < preamble_cycles
       THEN /\ sched' = sched \o <<[burst("preamble", PreambleMs, 0) EXCEPT !.ch = -1, !.sym = -1],
                                   [sleep("preamble", PreambleMs) EXCEPT !.ch = -1]>>
            /\ pre_i' = pre_i + 1
            /\ UNCHANGED <<bpc, msg>>
       ELSE /\ msg' = upper(message)
            /\ bpc' = "repeat"
            /\ UNCHANGED <<sched, pre_i>>
    /\ UNCHANGED <<message, unit_ms, repeats, preamble_cycles, rep, ch_idx, sym_idx>>
    /\ UNCHANGED receiver_vars

\* Line 125, and lines 185-186 when the loop is over.
NextRepeat ==
    /\ bpc = "repeat"
    /\ IF rep < repeats
       THEN /\ sched' = <<>>
            /\ ch_idx' = 0
            /\ bpc' = "char"
       ELSE /\ bpc' = "closed"
            /\ UNCHANGED <<sched, ch_idx>>
    /\ UNCHANGED <<message, unit_ms, repeats, preamble_cycles, msg, pre_i,
                   rep, sym_idx>>
    /\ UNCHANGED receiver_vars

\* Lines 129-143: the next character of msg; lines 179-183 after the last.
NextChar ==
    /\ bpc = "char"
    /\ IF ch_idx >= Len(msg)
       THEN /\ sched' = IF rep < repeats - 1
                        THEN Append(sched, sleep("repeat", word_gap))
                        ELSE sched
            /\ rep' = rep + 1
            /\ bpc' = "repeat"
            /\ UNCHANGED <<ch_idx, sym_idx>>
       ELSE LET ch == msg[ch_idx + 1]
            IN  IF ch = " "
                THEN /\ sched' = Append(sched, sleep("word", word_gap))
                     /\ ch_idx' = ch_idx + 1
                     /\ UNCHANGED <<bpc, rep, sym_idx>>
                ELSE IF morse_code(ch) = <<>>
                THEN /\ ch_idx' = ch_idx + 1
                     /\ UNCHANGED <<bpc, rep, sym_idx, sched>>
                ELSE /\ sym_idx' = 0
                     /\ bpc' = "symbol"
                     /\ UNCHANGED <<rep, ch_idx, sched>>
    /\ UNCHANGED <<message, unit_ms, repeats, preamble_cycles, msg, pre_i>>
    /\ UNCHANGED receiver_vars

\* Lines 146-170: one symbol of the character's code.  elapsed is the burst's
\* duration and what the clock ran over it; it is read only before an
\* intra-element gap.
SendSymbol ==
    /\ bpc = "symbol"
    /\ LET code == morse_code(msg[ch_idx + 1])
           sym == code[sym_idx + 1]
           more == sym_idx < Len(code) - 1
       IN  /\ \E late \in IF more THEN 0..MaxLate ELSE {0} :
                 IF sym \in {".", "-"}
                 THEN LET target_duration == IF sym = "." THEN dot ELSE dash
                          elapsed == target_duration + late
                          gap_duration == Max(0, target_duration + intra_gap - elapsed)
                          on == burst(IF sym = "." THEN "dot" ELSE "dash",
                                      target_duration, late)
                      IN  sched' = IF more /\ gap_duration > 0
                                   THEN sched \o <<on, sleep("intra", gap_duration)>>
                                   ELSE Append(sched, on)
                 ELSE sched' = sched
           /\ sym_idx' = sym_idx + 1
           /\ bpc' = IF more THEN "symbol" ELSE "chargap"
    /\ UNCHANGED <<message, unit_ms, repeats, preamble_cycles, msg, pre_i,
                   rep, ch_idx>>
    /\ UNCHANGED receiver_vars

\* Lines 172-177: the character gap.
CharGap ==
    /\ bpc = "chargap"
    /\ sched' = IF /\ ch_idx < Len(msg) - 1
                   /\ (ch_idx + 1 >= Len(msg) \/ msg[ch_idx + 2] # " ")
                THEN Append(sched, sleep("char", char_gap))
                ELSE sched
    /\ ch_idx' = ch_idx + 1
    /\ bpc' = "char"
    /\ UNCHANGED <<message, unit_ms, repeats, preamble_cycles, msg, pre_i,
                   rep, sym_idx>>
    /\ UNCHANGED receiver_vars

NextMorse ==
    \/ Setup
    \/ Preamble
    \/ NextRepeat
    \/ NextChar
    \/ SendSymbol
    \/ CharGap

\* No decode run beside a beacon.
receiver_idle ==
    /\ pc = "idle"
    /\ args = args_default
    /\ video = None
    /\ roi = None
    /\ blob = None
    /\ intens = <<>>
    /\ d = <<>>
    /\ frame_bits = <<>>
    /\ thr = None
    /\ bit_period = 0
    /\ cycle_frames = None
    /\ off = 0
    /\ iter = iter_initial
    /\ best = best_initial
    /\ report = None
    /\ err = NoError
    /\ fps = 0
    /\ pos = 0

\* Messages of a two-element letter (lower case), a one-element letter, a
\* character MORSE_TABLE lacks, and spaces.
MessageChars == {"a", "E", ",", " "}
Messages == UNION {[1..n -> MessageChars] : n \in 0..MaxMessage}
\* <<--unit-ms, --repeats, --preamble-cycles>>
BeaconOptions == {<<1, 1, 0>>, <<2, 2, 1>>, <<300, 0, 0>>}

InitMorse ==
    /\ receiver_idle
    /\ bpc = "setup"
    /\ message \in Messages
    /\ \E o \in BeaconOptions :
          /\ unit_ms = o[1]
          /\ repeats = o[2]
          /\ preamble_cycles = o[3]
    /\ msg = <<>>
    /\ pre_i = 0
    /\ rep = 0
    /\ ch_idx = 0
    /\ sym_idx = 0
    /\ sched = <<>>

SpecMorse == InitMorse /\ [][NextMorse]_vars

\* ------------------------------------------------- claims on the alignment
\* What the text says of the sampler, stated without the sampler: the number of
\* complete windows after offset o, and the majority of window i (0-based).
SymbolCount(F, P, o) == IF o >= Len(F) THEN 0 ELSE (Len(F) - o) \div P
SymbolBit(F, P, o, i) ==
    IF 2 * Cardinality({j \in (o + i * P + 1)..(o + (i + 1) * P) : F[j] = 1}) >= P
    THEN 1 ELSE 0
\* Offset o compared against the expected pattern E: compared length and errors.
ComparedAt(F, P, E, o) == Min(SymbolCount(F, P, o), Len(E))
ErrorsAt(F, P, E, o) ==
    Cardinality({i \in 0..(ComparedAt(F, P, E, o) - 1) : SymbolBit(F, P, o, i) # E[i + 1]})
ComparableOffsets(F, P, E) == {o \in 0..(P - 1) : ComparedAt(F, P, E, o) > 0}

\* C2: when the frame bits are a non-empty pattern with every bit repeated
\* BitPeriod times and the search is run against that same pattern, the search
\* returns offset 0 with a bit-error-rate of 0.
C2_NoiselessOffsetZero ==
    (/\ pc = "report"
     /\ args.expected_pattern # <<>>
     /\ frame_bits = Repeat(args.expected_pattern, bit_period))
    => (best.offset = 0 /\ best.ber = <<0, Len(args.expected_pattern)>>)

C2_Witness ==
    /\ pc = "report"
    /\ Len(args.expected_pattern) = 3
    /\ bit_period = 3
    /\ frame_bits = Repeat(args.expected_pattern, bit_period)
    /\ best.offset = 0

\* C3: the returned alignment has the least bit-error-rate of all offsets in
\* [0, BitPeriod) that compare at least one bit, and the least offset among
\* those that reach it.
C3_MinimalBerLowestOffset ==
    pc = "report" =>
        LET F == frame_bits
            P == bit_period
            E == args.expected_pattern
            Offs == ComparableOffsets(F, P, E)
        IN  IF Offs = {}
            THEN best.ber = None
            ELSE /\ best.ber # None
                 /\ best.offset \in Offs
                 /\ best.ber = <<ErrorsAt(F, P, E, best.offset),
                                 ComparedAt(F, P, E, best.offset)>>
                 /\ \A o \in Offs :
                       /\ best.ber[1] * ComparedAt(F, P, E, o)
                             <= ErrorsAt(F, P, E, o) * best.ber[2]
                       /\ (best.ber[1] * ComparedAt(F, P, E, o)
                             = ErrorsAt(F, P, E, o) * best.ber[2]) => best.offset <= o

\* Two offsets tie for the least rate and a later offset is worse than the first.
C3_Witness ==
    /\ pc = "report"
    /\ bit_period = 3
    /\ best.offset = 1
    /\ best.ber # None
    /\ LET F == frame_bits
           E == args.expected_pattern
       IN  /\ ComparableOffsets(F, 3, E) = {0, 1, 2}
           /\ ErrorsAt(F, 3, E, 2) * best.ber[2] = best.ber[1] * ComparedAt(F, 3, E, 2)
           /\ ErrorsAt(F, 3, E, 0) * best.ber[2] > best.ber[1] * ComparedAt(F, 3, E, 0)

\* C8: N symbols sent at bit period 3 with exactly one frame flipped, sampled
\* at offset 0 and compared with the pattern sent: all N symbols are compared
\* and the bit-error-rate is at most 1/N.
SingleFlip(F, G) ==
    /\ Len(F) = Len(G)
    /\ Cardinality({i \in 1..Len(F) : F[i] # G[i]}) = 1

C8_SingleFlipBer ==
    (/\ iter.off = Some(0)
     /\ off = 1
     /\ bit_period = 3
     /\ args.expected_pattern # <<>>
     /\ SingleFlip(frame_bits, Repeat(args.expected_pattern, 3)))
    => (/\ iter.compared
        /\ iter.L = Len(args.expected_pattern)
        /\ iter.errors * Len(args.expected_pattern) <= iter.L)

C8_Witness ==
    /\ iter.off = Some(0)
    /\ off = 1
    /\ bit_period = 3
    /\ Len(args.expected_pattern) = 3
    /\ SingleFlip(frame_bits, Repeat(args.expected_pattern, 3))
    /\ iter.L = 3
    /\ iter.errors = 0

\* C9: at offset o the sampler returns floor((len(F) - o) / P) symbol bits, none
\* when o >= len(F); bit i is 1 exactly when at least half of the frames of
\* window i are 1; the frames after the last complete window change nothing.
C9_SamplerWindows ==
    iter.off # None =>
        LET F == frame_bits
            P == bit_period
            o == iter.off[1]
            n == SymbolCount(F, P, o)
        IN  /\ Len(iter.bits) = n
            /\ \A i \in 0..(n - 1) : iter.bits[i + 1] = SymbolBit(F, P, o, i)
            /\ \A G \in BitSeqs(0, P - 1) :
                  n > 0 => sample_bits_with_offset(SubSeq(F, 1, o + n * P) \o G, P, o)
                             = iter.bits

\* A window with exactly half of its frames ON, and an incomplete last window.
C9_Witness ==
    /\ iter.off = Some(1)
    /\ bit_period = 2
    /\ frame_bits = <<1, 1, 0, 0, 0, 1>>
    /\ iter.bits = <<1, 0>>

\* ------------------------------------------------------ claims on the runs
\* C1: scenario A decodes with bit_period_frames = 3, an offset within the bit
\* period and a bit-error-rate of 0 against 1010...
C1_ScenarioADecodes ==
    pc = "done" =>
        /\ report.bit_period_frames = 3
        /\ report.offset_frames \in 0..2
        /\ report.nbits_compared > 0
        /\ report.ber_vs_expected = <<0, report.nbits_compared>>

\* C4: automatic ROI detection on a uniformly gray first frame fails with the
\* Auto-ROI error and returns no region.
UniformFrame(v, i) ==
    \A r \in 0..(v.height - 1) : \A c \in 0..(v.width - 1) :
        pixel(v, i, r, c) = pixel(v, i, 0, 0)

C4_UniformGrayFails ==
    (/\ args.roi = None
     /\ ~args.interactive_roi
     /\ pos >= 1
     /\ UniformFrame(video, 0))
    => (pc = "error" /\ err = "RuntimeError: Auto-ROI failed" /\ roi = None)

\* C5: a run whose --roi violates 0 <= x, 0 <= y, x + w <= frame_width,
\* y + h <= frame_height, w > 0, h > 0 aborts with an error before any frame is
\* cropped, and emits no report.
ValidRegion(r, W, H) ==
    /\ 0 <= r[1]
    /\ 0 <= r[2]
    /\ r[1] + r[3] <= W
    /\ r[2] + r[4] <= H
    /\ r[3] > 0
    /\ r[4] > 0

C5_InvalidRoiAborts ==
    (/\ args.roi # None
     /\ ~ValidRegion(args.roi, video.width, video.height))
    => (/\ intens = <<>>
        /\ report = None
        /\ pos >= 1 => pc = "error")

\* C6: when no offset compares any bit, the alignment has no error rate and 0
\* compared bits, the run does not raise, and the report is emitted with a null
\* BER, nbits_compared = 0 and undefined ON and OFF means and separation.
NoComparableBits ==
    ComparableOffsets(frame_bits, bit_period, args.expected_pattern) = {}

C6_InconclusiveStillReports ==
    /\ (pc \in {"report", "done"} /\ NoComparableBits)
       => (best.ber = None /\ best.nbits = 0 /\ err = NoError)
    /\ (pc = "report" /\ NoComparableBits) => ENABLED Report
    /\ (pc = "done" /\ NoComparableBits)
       => (/\ report # None
           /\ report.ber_vs_expected = None
           /\ report.nbits_compared = 0
           /\ report.mean_intensity_on.nan
           /\ report.mean_intensity_off.nan
           /\ report.on_minus_off.nan)

\* Fewer frames than one bit period, against a non-empty pattern.
C6_Witness ==
    /\ pc = "done"
    /\ args.expected_pattern # <<>>
    /\ bit_period >= 2
    /\ Len(frame_bits) >= 1
    /\ Len(frame_bits) < bit_period
    /\ report.ber_vs_expected = None
    /\ report.nbits_compared = 0

\* C7: the bit period handed to the alignment search and written to the report
\* is at least 1.
C7_BitPeriodAtLeastOne ==
    /\ pc \in {"align", "report", "done"} => bit_period >= 1
    /\ report # None => report.bit_period_frames >= 1

\* C10: the automatic ROI is the bounding rectangle of the chosen region with
\* Pad pixels added on each of its four sides, intersected with the frame, and
\* it lies within the frame with a positive width and height.
C10_PaddedAndClipped ==
    blob # None =>
        LET x0 == Max(0, blob[1] - Pad)
            y0 == Max(0, blob[2] - Pad)
            x1 == Min(video.width, blob[1] + blob[3] + Pad)
            y1 == Min(video.height, blob[2] + blob[4] + Pad)
        IN  /\ roi = <<x0, y0, x1 - x0, y1 - y0>>
            /\ ValidRegion(roi, video.width, video.height)

\* ------------------------------------------------------ claims on the beacon
\* The elements (dots and dashes) commanded in the current repetition, the next
\* element after one, and the OFF time commanded between the two.
Elements == {k \in 1..Len(sched) : sched[k].on /\ sched[k].kind \in {"dot", "dash"}}
NextElement(k) == CHOOSE n \in Elements : n > k /\ \A o \in Elements : o > k => n <= o
OffBetween(a, b) == SumRange([k \in 1..Len(sched) |-> sched[k].ms], a + 1, b - 1)
\* Characters at 0-based indices ca < cb of msg belong to the same word.
SameWord(ca, cb) == \A j \in (ca + 1)..(cb - 1) : msg[j + 1] # " "

\* C11: within one repetition a dot is ON for 1 unit and a dash for 3 units;
\* the OFF interval between two consecutive elements is 1 unit within a
\* character (for a burst that ends on time), exactly 3 units between two
\* characters of the same word, and exactly 7 units between the last character
\* of a word and the first of the next word.
C11_MorseTiming ==
    bpc \in {"char", "symbol", "chargap", "repeat"} =>
        /\ \A k \in Elements :
              sched[k].ms = IF MORSE_TABLE[msg[sched[k].ch + 1]][sched[k].sym + 1] = "."
                            THEN unit_ms
                            ELSE 3 * unit_ms
        /\ \A a \in Elements :
              (\E b \in Elements : b > a) =>
                  LET b == NextElement(a)
                  IN  IF sched[a].ch = sched[b].ch
                      THEN sched[a].late = 0 => OffBetween(a, b) = unit_ms
                      ELSE IF SameWord(sched[a].ch, sched[b].ch)
                      THEN OffBetween(a, b) = 3 * unit_ms
                      ELSE OffBetween(a, b) = 7 * unit_ms

====
